---- MODULE Spec2Model ----
(***************************************************************************)
(* Model of backend/app.py: the rule-based text -> JSON prompt factory.    *)
(*                                                                         *)
(* A Python str is a sequence of characters; a character is a one-symbol   *)
(* TLA+ string.  Vietnamese letters that the keyword tables use are        *)
(* written by code point ("u00e1" is U+00E1, a with acute).  A literal of  *)
(* the source that no code inspects is kept as one symbol.  A JSON value   *)
(* is a tagged record [t, v].                                              *)
(***************************************************************************)
EXTENDS Integers, Sequences, FiniteSets, TLC

VARIABLES text, lang, task, edit, prompt_json, valid, errors, ret, pc

vars == <<text, lang, task, edit, prompt_json, valid, errors, ret, pc>>

-----------------------------------------------------------------------------
(* Bounds of the model.                                                    *)

\* number of fragments concatenated into an input text of the convert runs
MaxFrags == 2
\* number of fragments concatenated into an input of extract_negative
MaxNegFrags == 3
\* number of comma-separated parts of an input of naive_subject_environment
MaxParts == 7

-----------------------------------------------------------------------------
(* Python str primitives.                                                  *)

Min(S) == CHOOSE m \in S : \A n \in S : m <= n

Max(S) == CHOOSE m \in S : \A n \in S : n <= m

Digits == {"0", "1", "2", "3", "4", "5", "6", "7", "8", "9"}

\* the cased letters of the texts: <<capital, small>>
CasePairs ==
    <<<<"A", "a">>, <<"B", "b">>, <<"C", "c">>, <<"D", "d">>, <<"E", "e">>,
      <<"F", "f">>, <<"G", "g">>, <<"H", "h">>, <<"I", "i">>, <<"J", "j">>,
      <<"K", "k">>, <<"L", "l">>, <<"M", "m">>, <<"N", "n">>, <<"O", "o">>,
      <<"P", "p">>, <<"Q", "q">>, <<"R", "r">>, <<"S", "s">>, <<"T", "t">>,
      <<"U", "u">>, <<"V", "v">>, <<"W", "w">>, <<"X", "x">>, <<"Y", "y">>,
      <<"Z", "z">>, <<"u00c0", "u00e0">>, <<"u00c1", "u00e1">>,
      <<"u00ca", "u00ea">>, <<"u00cd", "u00ed">>, <<"u00d3", "u00f3">>,
      <<"u00d4", "u00f4">>, <<"u0110", "u0111">>, <<"u01a0", "u01a1">>,
      <<"u01af", "u01b0">>, <<"u1ea2", "u1ea3">>, <<"u1ea6", "u1ea7">>,
      <<"u1ea8", "u1ea9">>, <<"u1eac", "u1ead">>, <<"u1ece", "u1ecf">>,
      <<"u1ed0", "u1ed1">>, <<"u1edc", "u1edd">>, <<"u1ee8", "u1ee9">>,
      <<"u1eee", "u1eef">>, <<"u1ef0", "u1ef1">>>>

UpperLetters == {CasePairs[i][1] : i \in DOMAIN CasePairs}

LowerLetters == {CasePairs[i][2] : i \in DOMAIN CasePairs}

\* str.lower() on one character
UpperToLower ==
    [c \in UpperLetters |->
        CasePairs[CHOOSE i \in DOMAIN CasePairs : CasePairs[i][1] = c][2]]

LowerChar(c) == IF c \in UpperLetters THEN UpperToLower[c] ELSE c

\* str.lower()
lower(s) == [i \in 1..Len(s) |-> LowerChar(s[i])]

\* the characters str.strip() removes
Whitespace == {" ", "\n", "\t"}

\* the characters the regex class \w matches
WordChars == Digits \cup LowerLetters \cup UpperLetters \cup {"_"}

\* p occurs in s at index i
OccursAt(s, p, i) ==
    /\ i >= 1
    /\ i + Len(p) - 1 <= Len(s)
    /\ \A k \in 1..Len(p) : s[i + k - 1] = p[k]

\* str.find(p) + 1: the index of the first occurrence of p in s, 0 if none
Find(s, p) ==
    LET I == {i \in 1..(Len(s) - Len(p) + 1) : OccursAt(s, p, i)}
    IN  IF I = {} THEN 0 ELSE Min(I)

\* p in s
Contains(s, p) == \E i \in 1..(Len(s) - Len(p) + 1) : OccursAt(s, p, i)

\* any(k in s for k in keys)
ContainsAny(s, keys) == \E j \in DOMAIN keys : Contains(s, keys[j])

\* s.split(p, 1)[1], for p in s
AfterFirst(s, p) == SubSeq(s, Find(s, p) + Len(p), Len(s))

\* s.split(p)[0]
BeforeFirst(s, p) ==
    IF Contains(s, p) THEN SubSeq(s, 1, Find(s, p) - 1) ELSE s

\* str.strip()
strip(s) ==
    LET K == {i \in 1..Len(s) : s[i] \notin Whitespace}
    IN  IF K = {} THEN <<>> ELSE SubSeq(s, Min(K), Max(K))

\* re.split(r"[...]", s) for a character class seps; s.split(",") is
\* SplitOn(s, {","}).  Empty pieces are kept, as in Python.
RECURSIVE SplitOn(_, _)
SplitOn(s, seps) ==
    LET I == {i \in 1..Len(s) : s[i] \in seps}
    IN  IF I = {} THEN <<s>>
        ELSE <<SubSeq(s, 1, Min(I) - 1)>>
                 \o SplitOn(SubSeq(s, Min(I) + 1, Len(s)), seps)

\* [x.strip() for x in pieces if x.strip()]
StrippedNonEmpty(pieces) ==
    LET st == [i \in 1..Len(pieces) |-> strip(pieces[i])]
    IN  SelectSeq(st, LAMBDA x : x # <<>>)

\* concatenation of a sequence of strings
RECURSIVE Flatten(_)
Flatten(ss) == IF ss = <<>> THEN <<>> ELSE Head(ss) \o Flatten(Tail(ss))

\* the regex assertion \b between s[i-1] and s[i] (i in 1..Len(s)+1)
IsWordAt(s, i) == i >= 1 /\ i <= Len(s) /\ s[i] \in WordChars

WordBoundary(s, i) == IsWordAt(s, i - 1) # IsWordAt(s, i)

\* the length of the run of digits of s that starts at index i
DigitRun(s, i) ==
    LET stop == {j \in i..Len(s) : s[j] \notin Digits}
    IN  IF i > Len(s) THEN 0
        ELSE IF stop = {} THEN Len(s) - i + 1 ELSE Min(stop) - i

\* a Python None / an absent optional string: every extractor that returns
\* Optional[str] returns a non-empty match or None, and its callers only
\* test the result for truth
None == <<>>

-----------------------------------------------------------------------------
(* String literals of the source.                                          *)

sNegative == <<"n", "e", "g", "a", "t", "i", "v", "e", ":">>

sDashNo == <<"-", "-", "n", "o">>

sTranh == <<"t", "r", "u00e1", "n", "h">>

sKhongCo == <<"k", "h", "u00f4", "n", "g", " ", "c", "u00f3">>

sTiktok == <<"t", "i", "k", "t", "o", "k">>

sFacebook == <<"f", "a", "c", "e", "b", "o", "o", "k">>

sFb == <<"f", "b">>

sSocial == <<"s", "o", "c", "i", "a", "l">>

sSanPham == <<"S", "u1ea3", "n", " ", "p", "h", "u1ea9", "m">>

sFnB == <<"F", "&", "B">>

sGeneral == <<"g", "e", "n", "e", "r", "a", "l">>

sHigh == <<"h", "i", "g", "h">>

s4k == <<"4", "k">>

sVersion == <<"1", ".", "0">>

sConversion == <<"c", "o", "n", "v", "e", "r", "s", "i", "o", "n">>

sImage == <<"i", "m", "a", "g", "e">>

sMarketing == <<"m", "a", "r", "k", "e", "t", "i", "n", "g">>

sAgent == <<"a", "g", "e", "n", "t">>

\* ASPECT_PATTERNS, in order: each pattern is \b(label)\b
ASPECT_LABELS ==
    <<<<"1", ":", "1">>,
      <<"4", ":", "5">>,
      <<"1", "6", ":", "9">>,
      <<"9", ":", "1", "6">>>>

STYLE_KEYWORDS ==
    <<<<"p", "h", "o", "t", "o", "r", "e", "a", "l", "i", "s", "t", "i",
        "c">>,
      <<"c", "o", "m", "m", "e", "r", "c", "i", "a", "l">>,
      <<"c", "i", "n", "e", "m", "a", "t", "i", "c">>,
      <<"e", "d", "i", "t", "o", "r", "i", "a", "l">>,
      <<"m", "i", "n", "i", "m", "a", "l">>,
      <<"3", "d">>,
      <<"a", "n", "i", "m", "e">>,
      <<"w", "a", "t", "e", "r", "c", "o", "l", "o", "r">>,
      <<"f", "i", "l", "m">>>>

\* SHOT_KEYWORDS: the shot names in dict order, and each one's keys
SHOT_NAMES ==
    <<<<"c", "l", "o", "s", "e", "-", "u", "p">>,
      <<"w", "i", "d", "e">>,
      <<"m", "e", "d", "i", "u", "m">>>>

SHOT_KEYS_CLOSE_UP ==
    <<<<"c", "u1ead", "n", " ", "c", "u1ea3", "n", "h">>,
      <<"c", "l", "o", "s", "e", "-", "u", "p">>,
      <<"m", "a", "c", "r", "o">>>>

SHOT_KEYS_WIDE ==
    <<<<"t", "o", "u00e0", "n", " ", "c", "u1ea3", "n", "h">>,
      <<"w", "i", "d", "e">>,
      <<"p", "a", "n", "o", "r", "a", "m", "a">>>>

SHOT_KEYS_MEDIUM ==
    <<<<"t", "r", "u", "n", "g", " ", "c", "u1ea3", "n", "h">>,
      <<"m", "e", "d", "i", "u", "m", " ", "s", "h", "o", "t">>>>

env_cues ==
    <<<<"b", "a", "c", "k", "g", "r", "o", "u", "n", "d">>,
      <<"b", "u1ed1", "i", " ", "c", "u1ea3", "n", "h">>,
      <<"t", "r", "u00ea", "n">>,
      <<"t", "r", "o", "n", "g">>,
      <<"a", "t", " ">>,
      <<"i", "n", " ">>,
      <<"s", "t", "u", "d", "i", "o">>,
      <<"u00e1", "n", "h", " ", "s", "u00e1", "n", "g">>,
      <<"l", "i", "g", "h", "t">>>>

\* the fallback of constraints.negative
DEFAULT_NEGATIVE ==
    <<<<"t", "e", "x", "t">>,
      <<"w", "a", "t", "e", "r", "m", "a", "r", "k">>,
      <<"b", "l", "u", "r", "r", "y">>,
      <<"l", "o", "w", " ", "q", "u", "a", "l", "i", "t", "y">>>>

\* the benefit keywords of parse_marketing
BENEFIT_KEYWORDS ==
    <<<<"h", "e", "a", "l", "t", "h", "y">>,
      <<"t", "u1ed1", "t", " ", "c", "h", "o", " ", "s", "u1ee9", "c", " ",
        "k", "h", "u1ecf", "e">>,
      <<"u00ed", "t", " ", "u0111", "u01b0", "u1edd", "n", "g">>,
      <<"g", "i", "u00e0", "u", " ", "p", "r", "o", "t", "e", "i", "n">>,
      <<"p", "l", "a", "n", "t", "-", "b", "a", "s", "e", "d">>,
      <<"t", "h", "u", "u1ea7", "n", " ", "t", "h", "u1ef1", "c", " ", "v",
        "u1ead", "t">>,
      <<"n", "g", "o", "n">>,
      <<"t", "h", "u01a1", "m">>>>

\* the keywords of category F&B
FNB_KEYWORDS ==
    <<<<"l", "a", "t", "t", "e">>,
      <<"c", "u00e0", " ", "p", "h", "u00ea">>,
      <<"m", "a", "t", "c", "h", "a">>,
      <<"t", "r", "u00e0">>,
      <<"s", "u1eef", "a">>>>

-----------------------------------------------------------------------------
(* extract_negative                                                        *)

\* strategy 1 reading only up to the next "--no" marker
NegStrategy1_bounded(low) ==
    IF Contains(low, sNegative)
    THEN StrippedNonEmpty(
             SplitOn(BeforeFirst(AfterFirst(low, sNegative), sDashNo), {","}))
    ELSE <<>>

\* strategy 1: the "negative:" marker, remainder split on commas
NegStrategy1(low) ==
    IF Contains(low, sNegative)
    THEN StrippedNonEmpty(SplitOn(AfterFirst(low, sNegative), {","}))
    ELSE <<>>

\* strategy 2: the "--no" marker, remainder split on comma or newline
NegStrategy2(low) ==
    IF Contains(low, sDashNo)
    THEN StrippedNonEmpty(SplitOn(AfterFirst(low, sDashNo), {",", "\n"}))
    ELSE <<>>

\* strategy 3, one Vietnamese marker kw: split on comma, newline or semicolon
NegStrategy3(low, kw) ==
    IF Contains(low, kw)
    THEN StrippedNonEmpty(SplitOn(AfterFirst(low, kw), {",", "\n", ";"}))
    ELSE <<>>

\* the list neg before de-duplication
NegCollected(t) ==
    LET low == lower(t)
    IN  NegStrategy1(low) \o NegStrategy2(low)
            \o NegStrategy3(low, sTranh) \o NegStrategy3(low, sKhongCo)

\* the loop comparing x with the last element of out only
RECURSIVE DedupInto_adjacent(_, _)
DedupInto_adjacent(out, neg) ==
    IF neg = <<>> THEN out
    ELSE LET x == Head(neg)
         IN  IF x # <<>> /\ (out = <<>> \/ out[Len(out)] # x)
             THEN DedupInto_adjacent(Append(out, x), Tail(neg))
             ELSE DedupInto_adjacent(out, Tail(neg))

\* the loop "for x in neg: if x and x not in out: out.append(x)"
RECURSIVE DedupInto(_, _)
DedupInto(out, neg) ==
    IF neg = <<>> THEN out
    ELSE LET x == Head(neg)
         IN  IF x # <<>> /\ \A i \in 1..Len(out) : out[i] # x
             THEN DedupInto(Append(out, x), Tail(neg))
             ELSE DedupInto(out, Tail(neg))

extract_negative(t) == DedupInto(<<>>, NegCollected(t))

-----------------------------------------------------------------------------
(* The other field extractors.                                             *)

\* pat.search(t) for the pattern \b(label)\b
AspectMatches(t, label) ==
    \E i \in 1..Len(t) :
        /\ OccursAt(t, label, i)
        /\ WordBoundary(t, i)
        /\ WordBoundary(t, i + Len(label))

\* extract_aspect_ratio with the loop keeping the last matching pattern
extract_aspect_ratio_last(t) ==
    LET M == {j \in DOMAIN ASPECT_LABELS : AspectMatches(t, ASPECT_LABELS[j])}
    IN  IF M = {} THEN None ELSE ASPECT_LABELS[Max(M)]

\* the first pattern of ASPECT_PATTERNS that matches anywhere in t
extract_aspect_ratio(t) ==
    LET M == {j \in DOMAIN ASPECT_LABELS : AspectMatches(t, ASPECT_LABELS[j])}
    IN  IF M = {} THEN None ELSE ASPECT_LABELS[Min(M)]

\* the length of the match of \b(\d{2,3}mm)\b (IGNORECASE) that starts at
\* index i of t, 0 if there is none; \d{2,3} is greedy
LensMatchLen(t, i) ==
    LET ok(n) == /\ WordBoundary(t, i)
                 /\ DigitRun(t, i) >= n
                 /\ i + n + 1 <= Len(t)
                 /\ LowerChar(t[i + n]) = "m"
                 /\ LowerChar(t[i + n + 1]) = "m"
                 /\ WordBoundary(t, i + n + 2)
    IN  IF ok(3) THEN 5 ELSE IF ok(2) THEN 4 ELSE 0

\* m.group(1) of the leftmost match, verbatim
extract_lens(t) ==
    LET M == {i \in 1..Len(t) : LensMatchLen(t, i) > 0}
    IN  IF M = {} THEN None
        ELSE SubSeq(t, Min(M), Min(M) + LensMatchLen(t, Min(M)) - 1)

\* the length of the match of \b(f\/\d+(\.\d+)?)\b (IGNORECASE) that starts
\* at index i of t, 0 if there is none.  \d+ is greedy and a shorter run
\* ends before a digit, where \b fails; the optional group is dropped when
\* no \b follows its digits.
ApertureMatchLen(t, i) ==
    LET d == DigitRun(t, i + 2)
        q == i + 2 + d
        e == IF q <= Len(t) /\ t[q] = "." THEN DigitRun(t, q + 1) ELSE 0
    IN  IF ~ ( /\ WordBoundary(t, i)
               /\ i + 1 <= Len(t)
               /\ LowerChar(t[i]) = "f"
               /\ t[i + 1] = "/"
               /\ d >= 1 )
        THEN 0
        ELSE IF e >= 1 /\ WordBoundary(t, q + 1 + e) THEN 2 + d + 1 + e
        ELSE IF WordBoundary(t, q) THEN 2 + d
        ELSE 0

extract_aperture(t) ==
    LET M == {i \in 1..Len(t) : ApertureMatchLen(t, i) > 0}
    IN  IF M = {} THEN None
        ELSE SubSeq(t, Min(M), Min(M) + ApertureMatchLen(t, Min(M)) - 1)

\* SHOT_KEYWORDS[shot], by the index of shot in SHOT_NAMES
ShotKeys(j) ==
    CASE j = 1 -> SHOT_KEYS_CLOSE_UP
      [] j = 2 -> SHOT_KEYS_WIDE
      [] j = 3 -> SHOT_KEYS_MEDIUM

\* the first shot name, in dict order, one of whose keys is in the text
extract_shot(t) ==
    LET low == lower(t)
        M == {j \in DOMAIN SHOT_NAMES : ContainsAny(low, ShotKeys(j))}
    IN  IF M = {} THEN None ELSE SHOT_NAMES[Min(M)]

\* [s for s in keywords if s in low]
KeywordsIn(low, keywords) ==
    SelectSeq(keywords, LAMBDA k : Contains(low, k))

extract_styles(t) == KeywordsIn(lower(t), STYLE_KEYWORDS)

\* parts = [p.strip() for p in text.split(",") if p.strip()]
CommaParts(t) == StrippedNonEmpty(SplitOn(t, {","}))

IsEnvPart(p) == ContainsAny(lower(p), env_cues)

\* naive_subject_environment returning the last six of each list
naive_subject_environment_tail(t) ==
    LET parts == CommaParts(t)
        subj == SelectSeq(parts, LAMBDA p : ~ IsEnvPart(p))
        env == SelectSeq(parts, IsEnvPart)
    IN  [subject |->
            SubSeq(subj, IF Len(subj) < 6 THEN 1 ELSE Len(subj) - 5, Len(subj)),
         environment |->
            SubSeq(env, IF Len(env) < 6 THEN 1 ELSE Len(env) - 5, Len(env))]

\* returns subject[:6], env[:6]
naive_subject_environment(t) ==
    LET parts == CommaParts(t)
        subj == SelectSeq(parts, LAMBDA p : ~ IsEnvPart(p))
        env == SelectSeq(parts, IsEnvPart)
    IN  [subject |-> SubSeq(subj, 1, IF Len(subj) < 6 THEN Len(subj) ELSE 6),
         environment |-> SubSeq(env, 1, IF Len(env) < 6 THEN Len(env) ELSE 6)]

-----------------------------------------------------------------------------
(* JSON values and the schemas.                                            *)

JStr(s) == [t |-> "string", v |-> s]

JInt(n) == [t |-> "integer", v |-> n]

JArr(a) == [t |-> "array", v |-> a]

\* f maps each key of the object to its value
JObj(f) == [t |-> "object", v |-> f]

\* a list of str
JStrs(ss) == JArr([i \in 1..Len(ss) |-> JStr(ss[i])])

\* a literal whose characters no code inspects
Lit(x) == <<x>>

StringSchema == [type |-> "string"]

StringArraySchema == [type |-> "array", items |-> StringSchema]

NonEmptyStringArraySchema ==
    [type |-> "array", items |-> StringSchema, minItems |-> 1]

\* the quality schema without "additionalProperties": False
ImageQualitySchema_open ==
    [type |-> "object",
     properties |-> [detail |-> StringSchema, resolution |-> StringSchema]]

\* IMAGE_SCHEMA["properties"]["quality"]
ImageQualitySchema ==
    [type |-> "object",
     properties |-> [detail |-> StringSchema, resolution |-> StringSchema],
     additionalProperties |-> FALSE]

IMAGE_SCHEMA ==
    [type |-> "object",
     required |-> {"primary", "constraints", "output"},
     properties |->
        [primary |-> StringSchema,
         style |-> StringArraySchema,
         subject |-> StringArraySchema,
         environment |-> StringArraySchema,
         composition |->
            [type |-> "object",
             properties |-> [shot |-> StringSchema, lens |-> StringSchema,
                             aperture |-> StringSchema,
                             angle |-> StringSchema],
             additionalProperties |-> FALSE],
         quality |-> ImageQualitySchema,
         constraints |->
            [type |-> "object",
             required |-> {"negative"},
             properties |-> [negative |-> StringArraySchema],
             additionalProperties |-> FALSE],
         output |->
            [type |-> "object",
             required |-> {"aspect_ratio", "num_images"},
             properties |->
                [aspect_ratio |-> StringSchema,
                 num_images |->
                    [type |-> "integer", minimum |-> 1, maximum |-> 8]],
             additionalProperties |-> FALSE]],
     additionalProperties |-> FALSE]

MARKETING_SCHEMA ==
    [type |-> "object",
     required |-> {"product", "platform", "deliverables"},
     properties |->
        [product |->
            [type |-> "object",
             required |-> {"name"},
             properties |-> [name |-> StringSchema,
                             category |-> StringSchema,
                             key_benefits |-> StringArraySchema,
                             price_point |-> StringSchema],
             additionalProperties |-> FALSE],
         audience |->
            [type |-> "object",
             properties |-> [segment |-> StringSchema,
                             pain_points |-> StringArraySchema,
                             desires |-> StringArraySchema],
             additionalProperties |-> FALSE],
         platform |-> StringSchema,
         objective |-> StringSchema,
         tone |-> StringArraySchema,
         deliverables |->
            [type |-> "object",
             required |-> {"hook_titles", "script_60s", "caption",
                           "hashtags", "cta"},
             properties |-> [hook_titles |-> NonEmptyStringArraySchema,
                             script_60s |-> StringSchema,
                             caption |-> StringSchema,
                             hashtags |-> StringArraySchema,
                             cta |-> NonEmptyStringArraySchema],
             additionalProperties |-> FALSE],
         compliance |->
            [type |-> "object",
             properties |-> [avoid_claims |-> StringArraySchema,
                             constraints |-> StringArraySchema],
             additionalProperties |-> FALSE]],
     additionalProperties |-> FALSE]

AGENT_SCHEMA ==
    [type |-> "object",
     required |-> {"role", "goals", "constraints", "outputs"},
     properties |->
        [role |-> StringSchema,
         goals |-> NonEmptyStringArraySchema,
         tools_allowed |-> StringArraySchema,
         constraints |-> StringArraySchema,
         process |->
            [type |-> "object",
             properties |-> [steps |-> StringArraySchema,
                             ask_clarifying_if |-> StringArraySchema],
             additionalProperties |-> FALSE],
         outputs |->
            [type |-> "object",
             required |-> {"format", "acceptance_criteria"},
             properties |->
                [format |-> StringSchema,
                 acceptance_criteria |-> NonEmptyStringArraySchema],
             additionalProperties |-> FALSE],
         evaluation |->
            [type |-> "object",
             properties |-> [checklist |-> StringArraySchema],
             additionalProperties |-> FALSE]],
     additionalProperties |-> FALSE]

\* TaskType, in the order of the oneOf of ENVELOPE_SCHEMA
TaskTypes == <<sImage, sMarketing, sAgent>>

TaskSchemas == <<IMAGE_SCHEMA, MARKETING_SCHEMA, AGENT_SCHEMA>>

ENVELOPE_SCHEMA ==
    [type |-> "object",
     required |-> {"meta", "task"},
     properties |->
        [meta |->
            [type |-> "object",
             required |-> {"version", "lang", "task"},
             properties |->
                [version |-> StringSchema,
                 lang |-> StringSchema,
                 task |-> [type |-> "string",
                           enum |-> {sImage, sMarketing, sAgent}]],
             additionalProperties |-> FALSE],
         task |-> [oneOf |-> TaskSchemas]],
     additionalProperties |-> FALSE]

\* jsonschema: does the instance satisfy the schema.  A keyword constrains
\* only the instances of the type it is about.
RECURSIVE Conforms(_, _)
Conforms(inst, schema) ==
    LET has(k) == k \in DOMAIN schema
        isObj == inst.t = "object"
        isArr == inst.t = "array"
    IN  /\ has("type") => inst.t = schema.type
        /\ has("enum") => inst.t = "string" /\ inst.v \in schema.enum
        /\ has("minimum") /\ inst.t = "integer" => inst.v >= schema.minimum
        /\ has("maximum") /\ inst.t = "integer" => inst.v <= schema.maximum
        /\ has("minItems") /\ isArr => Len(inst.v) >= schema.minItems
        /\ has("items") /\ isArr =>
              \A i \in 1..Len(inst.v) : Conforms(inst.v[i], schema.items)
        /\ has("required") /\ isObj => schema.required \subseteq DOMAIN inst.v
        /\ has("properties") /\ isObj =>
              \A k \in DOMAIN inst.v \cap DOMAIN schema.properties :
                  Conforms(inst.v[k], schema.properties[k])
        /\ has("additionalProperties") /\ isObj =>
              \/ schema.additionalProperties
              \/ DOMAIN inst.v \subseteq DOMAIN schema.properties
        /\ has("oneOf") =>
              Cardinality({j \in DOMAIN schema.oneOf :
                              Conforms(inst, schema.oneOf[j])}) = 1

\* the keyword of the violation that ValidationError reports: the model
\* keeps of e.message only which keyword of the envelope schema failed
RECURSIVE ViolatedKeyword(_, _)
ViolatedKeyword(inst, schema) ==
    LET has(k) == k \in DOMAIN schema
        isObj == inst.t = "object"
        bad == IF has("properties") /\ isObj
               THEN {k \in DOMAIN inst.v \cap DOMAIN schema.properties :
                        ~ Conforms(inst.v[k], schema.properties[k])}
               ELSE {}
    IN  IF has("type") /\ inst.t # schema.type THEN "type"
        ELSE IF has("required") /\ isObj
                /\ ~ (schema.required \subseteq DOMAIN inst.v) THEN "required"
        ELSE IF has("additionalProperties") /\ isObj
                /\ ~ schema.additionalProperties
                /\ ~ (DOMAIN inst.v \subseteq DOMAIN schema.properties)
             THEN "additionalProperties"
        ELSE IF bad # {}
             THEN LET k == CHOOSE k \in bad : TRUE
                  IN  ViolatedKeyword(inst.v[k], schema.properties[k])
        ELSE IF has("oneOf") THEN "oneOf"
        ELSE IF has("enum") THEN "enum"
        ELSE IF has("minItems") /\ inst.t = "array"
                /\ Len(inst.v) < schema.minItems THEN "minItems"
        ELSE IF has("minimum") /\ inst.v < schema.minimum THEN "minimum"
        ELSE IF has("maximum") /\ inst.v > schema.maximum THEN "maximum"
        ELSE "items"

\* validate_envelope that also holds the task body to the shape meta.task names
validate_envelope_tagged(obj) ==
    IF /\ Conforms(obj, ENVELOPE_SCHEMA)
       /\ \A j \in DOMAIN TaskTypes :
              obj.v.meta.v.task.v = TaskTypes[j]
                  => Conforms(obj.v.task, TaskSchemas[j])
    THEN [ok |-> TRUE, errors |-> <<>>]
    ELSE [ok |-> FALSE, errors |-> <<Lit("oneOf")>>]

\* returns (ok, errors)
validate_envelope(obj) ==
    IF Conforms(obj, ENVELOPE_SCHEMA)
    THEN [ok |-> TRUE, errors |-> <<>>]
    ELSE [ok |-> FALSE,
          errors |-> <<Lit(ViolatedKeyword(obj, ENVELOPE_SCHEMA))>>]

-----------------------------------------------------------------------------
(* The task builders.                                                      *)

\* the object with the keys of keys, each with its value in all
Only(keys, all) == JObj([k \in keys |-> all[k]])

\* ImageConstraints without the "or" fallback
ImageConstraints_nofallback(negative) == JObj([negative |-> JStrs(negative)])

\* {"negative": negative or [the default list]}
ImageConstraints(negative) ==
    JObj([negative |->
             JStrs(IF negative # <<>> THEN negative ELSE DEFAULT_NEGATIVE)])

\* ImageOutput with num_images below the schema's minimum
ImageOutput_zero(ar) ==
    JObj([aspect_ratio |-> JStr(ar), num_images |-> JInt(0)])

\* {"aspect_ratio": ar, "num_images": 1}
ImageOutput(ar) ==
    JObj([aspect_ratio |-> JStr(ar), num_images |-> JInt(1)])

parse_image(t) ==
    LET found == extract_aspect_ratio(t)
        ar == IF found # None THEN found ELSE ASPECT_LABELS[1]
        lens == extract_lens(t)
        ap == extract_aperture(t)
        shot == extract_shot(t)
        styles == extract_styles(t)
        negative == extract_negative(t)
        se == naive_subject_environment(t)
        composition ==
            Only((IF shot # None THEN {"shot"} ELSE {})
                     \cup (IF lens # None THEN {"lens"} ELSE {})
                     \cup (IF ap # None THEN {"aperture"} ELSE {}),
                 [shot |-> JStr(shot), lens |-> JStr(lens),
                  aperture |-> JStr(ap)])
    IN  Only({"primary", "constraints", "output", "quality"}
                 \cup (IF styles # <<>> THEN {"style"} ELSE {})
                 \cup (IF se.subject # <<>> THEN {"subject"} ELSE {})
                 \cup (IF se.environment # <<>> THEN {"environment"} ELSE {})
                 \cup (IF DOMAIN composition.v # {}
                       THEN {"composition"} ELSE {}),
             [primary |-> JStr(strip(t)),
              constraints |-> ImageConstraints(negative),
              output |-> ImageOutput(ar),
              quality |-> JObj([detail |-> JStr(sHigh),
                                resolution |-> JStr(s4k)]),
              style |-> JStrs(styles),
              subject |-> JStrs(se.subject),
              environment |-> JStrs(se.environment),
              composition |-> composition])

\* Platform with the facebook test ahead of the tiktok test
Platform_facebook_first(low) ==
    IF Contains(low, sFacebook) \/ Contains(low, sFb) THEN sFacebook
    ELSE IF Contains(low, sTiktok) THEN sTiktok
    ELSE sSocial

\* "tiktok" first, then "facebook" or "fb", else "social"
Platform(low) ==
    IF Contains(low, sTiktok) THEN sTiktok
    ELSE IF Contains(low, sFacebook) \/ Contains(low, sFb) THEN sFacebook
    ELSE sSocial

\* the first phrase before a comma, or the fallback name
ProductName(t) ==
    LET first == strip(BeforeFirst(t, <<",">>))
    IN  IF Len(first) >= 3 THEN first ELSE sSanPham

parse_marketing(t) ==
    LET low == lower(t)
        name == ProductName(t)
    IN  JObj([product |->
                 JObj([name |-> JStr(name),
                       category |->
                          JStr(IF ContainsAny(low, FNB_KEYWORDS)
                               THEN sFnB ELSE sGeneral),
                       key_benefits |->
                          JStrs(KeywordsIn(low, BENEFIT_KEYWORDS))]),
              platform |-> JStr(Platform(low)),
              objective |-> JStr(sConversion),
              tone |-> JStrs(<<Lit("ngan gon"), Lit("bat trend"),
                               Lit("thuyet phuc")>>),
              deliverables |->
                 JObj([hook_titles |->
                          JStrs(<<name \o Lit(": nghe la muon thu lien"),
                                  name \o Lit(": ly do ban nen doi gu")>>),
                       script_60s |->
                          JStr(Lit("HOOK: ") \o name \o Lit("... CTA: ...")),
                       caption |-> JStr(name \o Lit(" - mo ta ngan gon")),
                       hashtags |-> JStrs(<<Lit("#fyp"), Lit("#viral"),
                                            Lit("#xuhuong")>>),
                       cta |-> JStrs(<<Lit("Comment INBOX de nhan menu"),
                                       Lit("Dat ngay hom nay")>>)]),
              compliance |->
                 JObj([avoid_claims |->
                          JStrs(<<Lit("chua benh"), Lit("cam ket giam can"),
                                  Lit("tuyen bo y khoa tuyet doi")>>),
                       constraints |->
                          JStrs(<<Lit("khong noi qua"),
                                  Lit("khong cong kich doi thu")>>)])])

\* the obj that parse_agent builds
AgentDocument ==
    JObj([role |-> JStr(Lit("AI Prompt Engineer / Automation Agent")),
          goals |-> JStrs(<<Lit("goal: text to JSON"),
                            Lit("goal: detect missing information"),
                            Lit("goal: consistent output")>>),
          tools_allowed |-> JStrs(<<Lit("schema_validator"),
                                    Lit("keyword_parser")>>),
          constraints |-> JStrs(<<Lit("constraint: do not invent"),
                                  Lit("constraint: valid JSON"),
                                  Lit("constraint: flag missing data")>>),
          process |->
             JObj([steps |-> JStrs(<<Lit("step: normalise"),
                                     Lit("step: task type"),
                                     Lit("step: extract"),
                                     Lit("step: validate"),
                                     Lit("step: report errors")>>),
                   ask_clarifying_if |->
                      JStrs(<<Lit("ask: no product name"),
                              Lit("ask: no platform"),
                              Lit("ask: no output format")>>)]),
          outputs |->
             JObj([format |-> JStr(Lit("JSON only")),
                   acceptance_criteria |->
                      JStrs(<<Lit("JSON parses"), Lit("validates"),
                              Lit("no extra field")>>)]),
          evaluation |->
             JObj([checklist |-> JStrs(<<Lit("Schema valid"),
                                         Lit("Negative/constraints sound"),
                                         Lit("No sensitive inference")>>)])])

\* parse_agent with the role taken from the text
parse_agent_echo(t) ==
    JObj([k \in DOMAIN AgentDocument.v |->
             IF k = "role" THEN JStr(t) ELSE AgentDocument.v[k]])

\* the parameter is the text, which the body never reads
parse_agent(t) == AgentDocument

build_envelope(t, l, k) ==
    LET task_obj == IF k = sImage THEN parse_image(t)
                    ELSE IF k = sMarketing THEN parse_marketing(t)
                    ELSE parse_agent(t)
    IN  JObj([meta |-> JObj([version |-> JStr(sVersion), lang |-> JStr(l),
                             task |-> JStr(k)]),
              task |-> task_obj])

-----------------------------------------------------------------------------
(* Inputs.                                                                 *)

\* the concatenations of at most n fragments of pool
TextsOf(pool, n) ==
    {Flatten(f) : f \in UNION {[1..k -> pool] : k \in 0..n}}

\* the fragments of the texts of the convert runs
ConvertFrags ==
    {<<"1", "6", ":", "9">>,
     <<"1", ":", "1", " ">>,
     <<"9", ":", "1", "6", " ">>,
     <<"x">>,
     <<" ">>,
     <<",">>,
     <<"T", "i", "k", "T", "o", "k">>,
     <<"f", "b">>,
     <<"F", "a", "c", "e", "b", "o", "o", "k">>,
     <<"8", "5", "m", "m">>,
     <<"f", "/", "2", ".", "8">>,
     <<"m", "a", "c", "r", "o">>,
     <<"f", "i", "l", "m">>,
     <<"n", "e", "g", "a", "t", "i", "v", "e", ":">>,
     <<"l", "a", "t", "t", "e">>,
     <<"i", "n", " ">>}

\* text: str = Field(..., min_length=1)
ConvertTexts == TextsOf(ConvertFrags, MaxFrags) \ {<<>>}

\* the fragments of the inputs of extract_negative
NegFrags ==
    {<<"n", "e", "g", "a", "t", "i", "v", "e", ":", " ", "a", ",", " ", "b">>,
     <<"-", "-", "n", "o", " ", "a", ",", " ", "c">>,
     <<" ">>,
     <<",">>,
     <<"\n">>,
     <<";">>,
     <<"x">>,
     <<"N", "e", "g", "a", "t", "i", "v", "e", ":">>,
     <<"-", "-", "N", "O">>,
     <<"t", "r", "u00e1", "n", "h">>,
     <<"K", "H", "u00d4", "N", "G", " ", "C", "u00d3">>,
     <<"a">>}

NegTexts == TextsOf(NegFrags, MaxNegFrags)

\* the comma-separated parts of the inputs of naive_subject_environment
PartPool ==
    {<<"a">>,
     <<" ", "B">>,
     <<"i", "n", " ", "c">>,
     <<>>}

\* ",".join(parts)
RECURSIVE JoinComma(_)
JoinComma(parts) ==
    IF Len(parts) = 1 THEN parts[1]
    ELSE parts[1] \o <<",">> \o JoinComma(Tail(parts))

PartTexts ==
    {JoinComma(f) : f \in UNION {[1..k -> PartPool] : k \in 1..MaxParts}}

\* the values of lang
Langs ==
    {<<"v", "i">>,
     <<"e", "n">>}

-----------------------------------------------------------------------------
(* The request handler.                                                    *)

Null == <<>>

\* a request (text, lang, task) has arrived; nothing is computed yet
InitRequest(texts) ==
    /\ text \in texts
    /\ lang \in Langs
    /\ task \in {sImage, sMarketing, sAgent}
    /\ edit = Null
    /\ prompt_json = Null
    /\ valid = FALSE
    /\ errors = <<>>
    /\ ret = Null
    /\ pc = "request"

Init == InitRequest(ConvertTexts)

\* POST /convert: build the envelope, validate it, return both
convert ==
    /\ pc = "request"
    /\ LET built == build_envelope(text, lang, task)
           res == validate_envelope(built)
       IN  /\ prompt_json' = built
           /\ valid' = res.ok
           /\ errors' = res.errors
    /\ pc' = "done"
    /\ UNCHANGED <<text, lang, task, edit, ret>>

Next == convert

Spec == Init /\ [][Next]_vars

-----------------------------------------------------------------------------
(* Properties of convert.                                                  *)

ImageTaskDone == pc = "done" /\ task = sImage

AspectOf(env) == env.v.task.v.output.v.aspect_ratio.v

\* p occurs in t with no word character on either side
Standalone(t, p) ==
    \E i \in 1..Len(t) :
        /\ OccursAt(t, p, i)
        /\ (i = 1 \/ t[i - 1] \notin WordChars)
        /\ (i + Len(p) > Len(t) \/ t[i + Len(p)] \notin WordChars)

\* C2 as stated: an image text that contains "16:9" anywhere gets
\* output.aspect_ratio = "16:9"
C2_Original ==
    ImageTaskDone /\ Contains(text, ASPECT_LABELS[3])
        => AspectOf(prompt_json) = ASPECT_LABELS[3]

\* C2, amended: an image text in which "16:9" stands between non-word
\* characters (or the ends of the text), and in which neither "1:1" nor
\* "4:5" stands so, gets output.aspect_ratio = "16:9", whatever else the
\* text contains
C2_Aspect169 ==
    ( /\ ImageTaskDone
      /\ Standalone(text, ASPECT_LABELS[3])
      /\ ~ Standalone(text, ASPECT_LABELS[1])
      /\ ~ Standalone(text, ASPECT_LABELS[2]) )
        => AspectOf(prompt_json) = ASPECT_LABELS[3]

C2_Witness ==
    /\ ImageTaskDone
    /\ Standalone(text, ASPECT_LABELS[3])
    /\ Standalone(text, ASPECT_LABELS[4])
    /\ AspectOf(prompt_json) = ASPECT_LABELS[3]

\* the text has no aspect ratio, lens, aperture, shot key, style keyword or
\* negative marker
NoKeywords(t) ==
    LET low == lower(t)
    IN  /\ \A j \in DOMAIN ASPECT_LABELS : ~ Standalone(t, ASPECT_LABELS[j])
        /\ extract_lens(t) = None
        /\ extract_aperture(t) = None
        /\ \A j \in DOMAIN SHOT_NAMES : ~ ContainsAny(low, ShotKeys(j))
        /\ ~ ContainsAny(low, STYLE_KEYWORDS)
        /\ ~ ContainsAny(low, <<sNegative, sDashNo, sTranh, sKhongCo>>)

\* C3: an image text with none of the recognized keywords or patterns gets
\* the default negative list, aspect ratio "1:1" and num_images 1, and its
\* envelope validates with no error
C3_Fallback ==
    ImageTaskDone /\ NoKeywords(text)
        => /\ prompt_json.v.task.v.constraints.v.negative
                  = JStrs(DEFAULT_NEGATIVE)
           /\ AspectOf(prompt_json) = ASPECT_LABELS[1]
           /\ prompt_json.v.task.v.output.v.num_images = JInt(1)
           /\ valid
           /\ errors = <<>>

C3_Witness ==
    /\ ImageTaskDone
    /\ NoKeywords(text)
    /\ Len(text) >= 2
    /\ "subject" \in DOMAIN prompt_json.v.task.v
    /\ valid

\* two envelopes agree on everything but meta.lang
SameButLang(a, b) ==
    /\ DOMAIN a.v = DOMAIN b.v
    /\ DOMAIN a.v.meta.v = DOMAIN b.v.meta.v
    /\ a.v.meta.v.version = b.v.meta.v.version
    /\ a.v.meta.v.task = b.v.meta.v.task
    /\ a.v.task = b.v.task

PlatformOf(env) == env.v.task.v.platform.v

\* C9: marketing platform is "tiktok" when the lower-cased text contains
\* "tiktok", else "facebook" when it contains "facebook" or "fb", else
\* "social"
C9_PlatformPriority ==
    pc = "done" /\ task = sMarketing
        => LET low == lower(text)
               p == PlatformOf(prompt_json)
           IN  /\ p \in {sTiktok, sFacebook, sSocial}
               /\ Contains(low, sTiktok) => p = sTiktok
               /\ ~ Contains(low, sTiktok)
                     /\ (Contains(low, sFacebook) \/ Contains(low, sFb))
                     => p = sFacebook
               /\ ~ Contains(low, sTiktok) /\ ~ Contains(low, sFacebook)
                     /\ ~ Contains(low, sFb)
                     => p = sSocial

C9_Witness ==
    /\ pc = "done"
    /\ task = sMarketing
    /\ Contains(lower(text), sTiktok)
    /\ Contains(lower(text), sFb)
    /\ PlatformOf(prompt_json) = sTiktok

\* the indexes of the task shapes that doc satisfies
ShapesOf(doc) == {j \in DOMAIN TaskSchemas : Conforms(doc, TaskSchemas[j])}

\* C10: every envelope that convert builds validates with no error, and
\* its task body satisfies the shape that meta.task names and no other
C10_BuiltIsValid ==
    pc = "done"
        => /\ valid
           /\ errors = <<>>
           /\ prompt_json.v.meta.v.task = JStr(task)
           /\ ShapesOf(prompt_json.v.task)
                  = {j \in DOMAIN TaskTypes : TaskTypes[j] = task}

C10_Witness ==
    /\ ImageTaskDone
    /\ "composition" \in DOMAIN prompt_json.v.task.v
    /\ "style" \in DOMAIN prompt_json.v.task.v
    /\ valid
    /\ ShapesOf(prompt_json.v.task) = {1}

-----------------------------------------------------------------------------
(* extract_negative on its own.                                            *)

InitNeg ==
    /\ text \in NegTexts
    /\ lang = Null
    /\ task = Null
    /\ edit = Null
    /\ prompt_json = Null
    /\ valid = FALSE
    /\ errors = <<>>
    /\ ret = Null
    /\ pc = "input"

CallExtractNegative ==
    /\ pc = "input"
    /\ ret' = extract_negative(text)
    /\ pc' = "done"
    /\ UNCHANGED <<text, lang, task, edit, prompt_json, valid, errors>>

NextNeg == CallExtractNegative

SpecNeg == InitNeg /\ [][NextNeg]_vars

sA == <<"a">>

sB == <<"b">>

sC == <<"c">>

\* "negative: a, b"
FragNegativeAB == sNegative \o <<" ", "a", ",", " ", "b">>

\* "--no a, c"
FragNoAC == sDashNo \o <<" ", "a", ",", " ", "c">>

HasBothFragments(t) == Contains(t, FragNegativeAB) /\ Contains(t, FragNoAC)

NoDuplicates(xs) ==
    \A i, j \in DOMAIN xs : i # j => xs[i] # xs[j]

\* the elements of xs at their first occurrence, in the order of xs
FirstOccurrences(xs) ==
    LET keep == {i \in DOMAIN xs : \A j \in 1..(i - 1) : xs[j] # xs[i]}
        idx(n) == CHOOSE i \in keep : Cardinality({k \in keep : k < i}) = n - 1
    IN  [n \in 1..Cardinality(keep) |-> xs[idx(n)]]

\* strategy 1, then strategy 2, then strategy 3 with its two markers
InStrategyOrder(t) ==
    LET low == lower(t)
    IN  NegStrategy1(low) \o NegStrategy2(low)
            \o NegStrategy3(low, sTranh) \o NegStrategy3(low, sKhongCo)

\* C1 as stated: a text that contains "negative: a, b" and "--no a, c"
\* yields exactly ["a", "b", "c"]
C1_Original ==
    pc = "done" /\ HasBothFragments(text) => ret = <<sA, sB, sC>>

\* C1, amended: a text that contains "negative: a, b" and "--no a, c"
\* yields a list with no duplicate, in order of first appearance, in
\* which "a" is at most once; it is never ["a", "b", "c"], because each
\* strategy reads from its marker to the end of the text, so that one
\* element carries the text of the other marker; "negative: a, b --no a, c"
\* yields ["a", "b --no a", "c"]
C1_NegativeBoth ==
    pc = "done" /\ HasBothFragments(text)
        => /\ NoDuplicates(ret)
           /\ ret = FirstOccurrences(InStrategyOrder(text))
           /\ Cardinality({i \in DOMAIN ret : ret[i] = sA}) <= 1
           /\ \E i \in DOMAIN ret :
                 Contains(ret[i], sDashNo) \/ Contains(ret[i], sNegative)
           /\ ret # <<sA, sB, sC>>
           /\ text = FragNegativeAB \o <<" ">> \o FragNoAC
                 => ret = <<sA, sB \o <<" ">> \o sDashNo \o <<" ", "a">>, sC>>

C1_Witness ==
    /\ pc = "done"
    /\ text = FragNegativeAB \o <<" ">> \o FragNoAC
    /\ Len(ret) = 3
    /\ ret[1] = sA
    /\ ret[3] = sC

\* C8: the result of extract_negative has no empty string and no two equal
\* elements, and is the concatenation of the strategies 1, 2, 3 with every
\* element kept at its first occurrence and dropped at the later ones
C8_DedupFirstSeen ==
    pc = "done"
        => /\ \A i \in DOMAIN ret : ret[i] # <<>>
           /\ NoDuplicates(ret)
           /\ ret = FirstOccurrences(InStrategyOrder(text))

C8_Witness ==
    /\ pc = "done"
    /\ Len(InStrategyOrder(text)) > Len(ret)
    /\ Len(ret) >= 2
    /\ Contains(lower(text), sNegative)
    /\ Contains(lower(text), sTranh)

-----------------------------------------------------------------------------
(* naive_subject_environment on its own.                                   *)

InitParts ==
    /\ text \in PartTexts
    /\ lang = Null
    /\ task = Null
    /\ edit = Null
    /\ prompt_json = Null
    /\ valid = FALSE
    /\ errors = <<>>
    /\ ret = Null
    /\ pc = "input"

CallSubjectEnvironment ==
    /\ pc = "input"
    /\ ret' = naive_subject_environment(text)
    /\ pc' = "done"
    /\ UNCHANGED <<text, lang, task, edit, prompt_json, valid, errors>>

NextParts == CallSubjectEnvironment

SpecParts == InitParts /\ [][NextParts]_vars

\* the comma-separated non-empty fragments of t without an environment cue
SubjectFragments(t) ==
    SelectSeq(CommaParts(t), LAMBDA p : ~ ContainsAny(lower(p), env_cues))

\* C6: subject and environment have at most 6 entries each, and with more
\* than 6 fragments without an environment cue the subject list is the
\* first 6 of them in their order
C6_Cap ==
    pc = "done"
        => /\ Len(ret.subject) <= 6
           /\ Len(ret.environment) <= 6
           /\ Len(SubjectFragments(text)) > 6
                 => ret.subject = SubSeq(SubjectFragments(text), 1, 6)

C6_Witness ==
    /\ pc = "done"
    /\ Len(SubjectFragments(text)) > 6
    /\ Len(ret.subject) = 6
    /\ ret.subject[6] # SubjectFragments(text)[7]

-----------------------------------------------------------------------------
(* validate_envelope on documents that convert did not build.              *)

\* the texts of the documents
ValTexts ==
    {<<"x">>,
     <<"m", "a", "c", "r", "o", ",", " ", "8", "5", "m", "m", " ", "f", "/", "2", ".", "8", " ", "f", "i", "l", "m">>,
     <<"l", "a", "t", "t", "e", ",", " ", "i", "n", " ", "x">>,
     <<"n", "e", "g", "a", "t", "i", "v", "e", ":", " ", "a">>}

\* the objects of an envelope, by their path from the top
ObjectPaths ==
    {<<>>, <<"meta">>, <<"task">>}
        \cup {<<"task", k>> :
                 k \in {"composition", "quality", "constraints", "output",
                        "product", "audience", "deliverables", "compliance",
                        "process", "outputs", "evaluation"}}

\* the keys a caller adds
ExtraKeys == {"extra", "role", "lens", "name"}

NoAdd == <<<<>>, "">>

\* a caller's change of a built envelope: meta.task is set to retag; with
\* fill, the optional objects that the builder left out of the task body are
\* there and empty; the property add[2] is added to the object at the path
\* add[1]
Edits ==
    [retag : {sImage, sMarketing, sAgent, Lit("other")},
     fill : BOOLEAN,
     add : (ObjectPaths \X ExtraKeys) \cup {NoAdd}]

RECURSIVE HasObjectAt(_, _)
HasObjectAt(obj, path) ==
    IF obj.t # "object" THEN FALSE
    ELSE IF path = <<>> THEN TRUE
    ELSE IF Head(path) \notin DOMAIN obj.v THEN FALSE
    ELSE HasObjectAt(obj.v[Head(path)], Tail(path))

RECURSIVE ObjectAt(_, _)
ObjectAt(obj, path) ==
    IF path = <<>> THEN obj ELSE ObjectAt(obj.v[Head(path)], Tail(path))

RECURSIVE AddAt(_, _, _, _)
AddAt(obj, path, key, val) ==
    IF path = <<>>
    THEN JObj([k \in DOMAIN obj.v \cup {key} |->
                  IF k = key THEN val ELSE obj.v[k]])
    ELSE JObj([obj.v EXCEPT
                  ![Head(path)] = AddAt(@, Tail(path), key, val)])

Retag(env, k) ==
    JObj([env.v EXCEPT
             !.meta = JObj([env.v.meta.v EXCEPT !.task = JStr(k)])])

\* the task body with an empty object for every object-typed property of
\* schema that it lacks
FillOptional(env, schema) ==
    LET body == env.v.task.v
        more == {k \in DOMAIN schema.properties \ DOMAIN body :
                    schema.properties[k].type = "object"}
    IN  JObj([env.v EXCEPT
                 !.task = JObj([k \in DOMAIN body \cup more |->
                                   IF k \in more THEN JObj(<<>>)
                                   ELSE body[k]])])

\* the task schema of the task type k
SchemaOf(k) ==
    TaskSchemas[CHOOSE j \in DOMAIN TaskTypes : TaskTypes[j] = k]

\* the envelope built for the task type k, changed by e but for the added
\* property
BaseOf(env, k, e) ==
    Retag(IF e.fill THEN FillOptional(env, SchemaOf(k)) ELSE env, e.retag)

ApplyEdit(env, k, e) ==
    IF e.add = NoAdd THEN BaseOf(env, k, e)
    ELSE AddAt(BaseOf(env, k, e), e.add[1], e.add[2], JStr(Lit("added")))

RECURSIVE SubSchema(_, _)
SubSchema(schema, path) ==
    IF path = <<>> THEN schema
    ELSE SubSchema(schema.properties[Head(path)], Tail(path))

\* the schema of the object at path, in an envelope whose task body was
\* built for the task type k
LevelSchema(path, k) ==
    IF path # <<>> /\ Head(path) = "task"
    THEN SubSchema(SchemaOf(k), Tail(path))
    ELSE SubSchema(ENVELOPE_SCHEMA, path)

\* the edit adds nothing, or adds to an object of env a key that the object
\* lacks and that its schema does not declare
EditApplies(env, k, e) ==
    IF e.add = NoAdd THEN TRUE
    ELSE IF ~ HasObjectAt(BaseOf(env, k, e), e.add[1]) THEN FALSE
    ELSE /\ e.add[2] \notin DOMAIN ObjectAt(BaseOf(env, k, e), e.add[1]).v
         /\ e.add[2] \notin DOMAIN LevelSchema(e.add[1], k).properties

InitVal ==
    /\ text \in ValTexts
    /\ lang \in Langs
    /\ task \in {sImage, sMarketing, sAgent}
    /\ edit \in Edits
    /\ EditApplies(build_envelope(text, lang, task), task, edit)
    /\ prompt_json = ApplyEdit(build_envelope(text, lang, task), task, edit)
    /\ valid = FALSE
    /\ errors = <<>>
    /\ ret = Null
    /\ pc = "document"

CallValidateEnvelope ==
    /\ pc = "document"
    /\ LET res == validate_envelope(prompt_json)
       IN  /\ valid' = res.ok
           /\ errors' = res.errors
    /\ pc' = "done"
    /\ UNCHANGED <<text, lang, task, edit, prompt_json, ret>>

NextVal == CallValidateEnvelope

SpecVal == InitVal /\ [][NextVal]_vars

\* C4: an envelope with one added property that the schema of its level
\* does not declare, at any level, fails validation with an error
C4_Closure ==
    pc = "done" /\ edit.add # NoAdd => ~ valid /\ errors # <<>>

C4_Witness ==
    /\ pc = "done"
    /\ edit.add = <<<<"task", "quality">>, "extra">>
    /\ edit.retag = task
    /\ ~ edit.fill
    /\ validate_envelope(build_envelope(text, lang, task)).ok
    /\ ~ valid
    /\ Len(errors) = 1

\* C7: an envelope whose meta.task names one task type and whose task body
\* has the shape of another validates with no error
C7_NoCrossCheck ==
    ( /\ pc = "done"
      /\ edit.add = NoAdd
      /\ edit.retag \in {sImage, sMarketing, sAgent}
      /\ edit.retag # task )
        => valid /\ errors = <<>>

C7_Witness ==
    /\ pc = "done"
    /\ edit.add = NoAdd
    /\ ~ edit.fill
    /\ task = sAgent
    /\ prompt_json.v.meta.v.task = JStr(sImage)
    /\ ShapesOf(prompt_json.v.task) = {3}
    /\ valid

====
